---- MODULE Spec2Model ----
(***************************************************************************)
(* read_excel.py: a command-line script that opens a spreadsheet, prints   *)
(* the list of its sheets and then every sheet as a text table, missing    *)
(* values shown as empty strings.                                          *)
(*                                                                         *)
(* The script is straight-line code.  Each action below is one statement   *)
(* (or one run of statements without file I/O) of the script, so that the  *)
(* file system, which other processes may change, is observed exactly at   *)
(* the two places where the script reads it: pd.ExcelFile (line 12) and    *)
(* pd.read_excel (line 20).                                                *)
(***************************************************************************)
EXTENDS Integers, Sequences, FiniteSets

\* ------------------------------------------------------------------ bounds

\* Most positional arguments after the script name.
MaxArgs == 2
\* Most sheets of a workbook.
MaxSheets == 2
\* Data rows and columns of every sheet.
NumRows == 2
NumCols == 2
\* Most changes other processes make to the files during the runs observed.
MaxEdits == 1

\* The paths that may be named on the command line.
Paths == {"a.xlsx", "b.xlsx"}

ScriptName == "read_excel.py"

\* -------------------------------------------------------------- cell values

\* A cell of the source sheet that stores no value.
Absent == "<absent>"
\* The missing-value marker of a loaded grid (NaN / NaT).
NaN == "<NaN>"

\* What a source cell may hold: a number, a text, a date, nothing, and a text
\* that is one of the parser's default missing-value markers.
CellCycle == <<"1", Absent, "abc", "NA", "2024-01-01">>
SourceCells == {CellCycle[k] : k \in 1..Len(CellCycle)}

\* Texts that pd.read_excel, called with its default na_values and
\* keep_default_na=True, reads as missing.
DefaultNaTexts == {"", "NA", "N/A", "NaN", "nan", "null", "NULL", "#N/A"}

\* What another process writes into a cell, and the cells it writes to.
EditValues == {"edited"}
EditCells == {<<1, 1>>}

SheetNamePool == <<"Sheet1", "Sheet2", "Sheet3", "Sheet4">>
ColumnPool == <<"A", "B", "C", "D">>

\* ------------------------------------------------------------------- files

Missing == [kind |-> "missing", sheets |-> <<>>]
PlainText == [kind |-> "text", sheets |-> <<>>]

\* The grid of the sheet at position i of a sample workbook: the cell kinds
\* in rotation, so that every kind occurs and no two sheets are alike.
SampleCells(i) ==
    [r \in 1..NumRows |->
        [c \in 1..NumCols |->
            CellCycle[(((r - 1) * NumCols + (c - 1) + 2 * (i - 1)) % Len(CellCycle)) + 1]]]

SampleColumns == [c \in 1..NumCols |-> ColumnPool[c]]

Reverse(s) == [k \in 1..Len(s) |-> s[Len(s) + 1 - k]]

\* The declared sheet orders tried: the first n names of the pool, in the
\* pool's order and in the opposite order, for n up to MaxSheets.
NameSeqs ==
    UNION {{[k \in 1..n |-> SheetNamePool[k]],
            Reverse([k \in 1..n |-> SheetNamePool[k]])} : n \in 1..MaxSheets}

\* A workbook file with the sheets `names`; the part of sheet `bad` (0: none)
\* is damaged and cannot be parsed.
Workbook(names, bad) ==
    [kind |-> "workbook",
     sheets |-> [i \in 1..Len(names) |->
                    [name |-> names[i], columns |-> SampleColumns,
                     cells |-> SampleCells(i), ok |-> i # bad]]]

Workbooks ==
    UNION {{Workbook(names, bad) : bad \in 0..Len(names)} : names \in NameSeqs}

\* What the path named first on the command line may hold at the start.
InitFiles == {Missing, PlainText} \cup Workbooks

\* What any other path may hold at the start.
OtherFiles == {Missing, Workbook(<<SheetNamePool[1]>>, 0)}

\* --------------------------------------------------------- library calls

\* Mutant: the sheet names listed in the opposite of the declared order.
ExcelFileReversed(file) ==
    IF file.kind = "workbook"
    THEN [ok |-> TRUE,
          sheet_names |-> Reverse([i \in 1..Len(file.sheets) |-> file.sheets[i].name])]
    ELSE [ok |-> FALSE, sheet_names |-> <<>>]

\* Mutant: a file that is no spreadsheet opens as a workbook without sheets.
ExcelFileLenient(file) ==
    IF file.kind = "workbook"
    THEN [ok |-> TRUE,
          sheet_names |-> [i \in 1..Len(file.sheets) |-> file.sheets[i].name]]
    ELSE [ok |-> file.kind = "text", sheet_names |-> <<>>]

\* pd.ExcelFile(path) on the file found at the path: raises unless the file
\* exists and is a spreadsheet container; otherwise a handle that lists the
\* sheet names in the order the workbook declares them.
ExcelFile(file) ==
    IF file.kind = "workbook"
    THEN [ok |-> TRUE,
          sheet_names |-> [i \in 1..Len(file.sheets) |-> file.sheets[i].name]]
    ELSE [ok |-> FALSE, sheet_names |-> <<>>]

\* The value pd.read_excel gives a source cell: an empty cell and a text that
\* is a default missing-value marker are both read as NaN.
ParseCell(v) == IF v = Absent \/ v \in DefaultNaTexts THEN NaN ELSE v

\* The labels of the default RangeIndex, as printed.
IndexLabels == <<"0", "1", "2", "3">>

NoFrame == [columns |-> <<>>, index |-> <<>>, data |-> <<>>]

\* pd.read_excel(path, sheet_name=name) on the file found at the path: raises
\* when the file is missing, is no spreadsheet, has no sheet of that name, or
\* the sheet cannot be parsed; otherwise the sheet as a DataFrame with the
\* default RangeIndex.
ReadExcel(file, name) ==
    IF file.kind # "workbook" THEN [ok |-> FALSE, df |-> NoFrame]
    ELSE LET hits == {i \in 1..Len(file.sheets) : file.sheets[i].name = name} IN
         IF hits = {} THEN [ok |-> FALSE, df |-> NoFrame]
         ELSE LET sh == file.sheets[CHOOSE i \in hits : TRUE] IN
              IF ~sh.ok THEN [ok |-> FALSE, df |-> NoFrame]
              ELSE [ok |-> TRUE,
                    df |-> [columns |-> sh.columns,
                            index |-> [r \in 1..Len(sh.cells) |-> IndexLabels[r]],
                            data |-> [r \in 1..Len(sh.cells) |->
                                        [c \in 1..Len(sh.cells[r]) |->
                                            ParseCell(sh.cells[r][c])]]]]

\* Mutant: only the first column is filled.
FillNaFirstColumn(df, value) ==
    [df EXCEPT !.data =
        [r \in 1..Len(df.data) |->
            [c \in 1..Len(df.data[r]) |->
                IF df.data[r][c] = NaN /\ c = 1 THEN value ELSE df.data[r][c]]]]

\* df.fillna(value): every missing value replaced, everything else kept.
FillNa(df, value) ==
    [df EXCEPT !.data =
        [r \in 1..Len(df.data) |->
            [c \in 1..Len(df.data[r]) |->
                IF df.data[r][c] = NaN THEN value ELSE df.data[r][c]]]]

\* df.to_string(index=...): the column labels and the rows; with the index,
\* each row is led by its index label and the header by an empty label.
ToString(df, index) ==
    IF index
    THEN [header |-> <<"">> \o df.columns,
          rows |-> [r \in 1..Len(df.data) |-> <<df.index[r]>> \o df.data[r]]]
    ELSE [header |-> df.columns, rows |-> df.data]

\* ------------------------------------------------------------------ output

Line(kind, name, names, table) ==
    [kind |-> kind, name |-> name, names |-> names,
     header |-> table.header, rows |-> table.rows]

NoTable == [header |-> <<>>, rows |-> <<>>]

UsageLine == Line("usage", "", <<>>, NoTable)
BlankLine == Line("blank", "", <<>>, NoTable)
ListHeaderLine == Line("list_header", "", <<>>, NoTable)
ListLine(names) == Line("list", "", names, NoTable)
SheetHeaderLine(name) == Line("sheet_header", name, <<>>, NoTable)
TableLines(table) == Line("table", "", <<>>, table)

\* Lines 13-15: the label, the list of sheet names, a blank line.
SheetListLines(names) == <<ListHeaderLine, ListLine(names), BlankLine>>

\* Mutant: no blank line after the table.
SheetBodyLinesNoBlank(table) == <<TableLines(table)>>

\* Lines 23-24: the table, then a blank line.
SheetBodyLines(table) == <<TableLines(table), BlankLine>>

\* ------------------------------------------------------------------- state

VARIABLES
    argv,       \* sys.argv: the script name, then the positional arguments
    fs,         \* the file system: what each path holds now
    pc,         \* the statement the script is at
    file_path,  \* line 9
    xl,         \* line 12: the opened workbook handle
    i,          \* how many sheet names the for loop of line 18 has taken
    sheet_name, \* line 18
    df,         \* lines 20 and 22
    stdout,     \* the lines printed so far
    stderr,     \* the uncaught exception reported, if any
    exit_code,  \* the exit code of the process; NotExited while it runs
    io,         \* history: the file accesses of the run, in order
    opened,     \* history: the file as pd.ExcelFile found it
    loaded,     \* history: the grid pd.read_excel last returned, with its source
    edits,      \* how many changes other processes have made
    touched,    \* the paths other processes have changed
    run,        \* which invocation this is
    prev        \* the outcome of the invocation before

vars == <<argv, fs, pc, file_path, xl, i, sheet_name, df, stdout, stderr,
          exit_code, io, opened, loaded, edits, touched, run, prev>>

NotExited == -1
NoHandle == [open |-> FALSE, sheet_names |-> <<>>]
NoLoad == [name |-> "", cells |-> <<>>, df |-> NoFrame]
NoOutcome == [stdout |-> <<>>, stderr |-> <<>>, exit_code |-> NotExited]

\* The state of a process that has just started.
Fresh ==
    /\ pc = "start"
    /\ file_path = ""
    /\ xl = NoHandle
    /\ i = 0
    /\ sheet_name = ""
    /\ df = NoFrame
    /\ stdout = <<>>
    /\ stderr = <<>>
    /\ exit_code = NotExited
    /\ io = <<>>
    /\ opened = Missing
    /\ loaded = NoLoad

ArgLists == UNION {[1..n -> Paths] : n \in 0..MaxArgs}

Init ==
    /\ argv \in {<<ScriptName>> \o a : a \in ArgLists}
    /\ fs \in [Paths -> InitFiles]
    /\ \A p \in Paths : (Len(argv) < 2 \/ p # argv[2]) => fs[p] \in OtherFiles
    /\ Fresh
    /\ edits = 0
    /\ touched = {}
    /\ run = 1
    /\ prev = NoOutcome

\* ------------------------------------------------------------- the script

\* An uncaught exception: the traceback goes to standard error and the
\* interpreter exits with code 1.
Raise(exc) ==
    /\ stderr' = Append(stderr, exc)
    /\ exit_code' = 1
    /\ pc' = "exited"

\* Mutant: the test is off by one.
MissingPathOffByOne(av) == Len(av) < 1

\* Line 5: the test that no path was given.
MissingPath(av) == Len(av) < 2

\* Mutant: the last argument is taken.
FilePathLastArg(av) == av[Len(av)]

\* Line 9: the argument taken as the path.
FilePathArg(av) == av[2]

\* Lines 5-9.
CheckArgs ==
    /\ pc = "start"
    /\ IF MissingPath(argv)
       THEN /\ stdout' = Append(stdout, UsageLine)
            /\ exit_code' = 1
            /\ pc' = "exited"
            /\ UNCHANGED <<file_path, stderr>>
       ELSE IF Len(argv) < 2
            THEN /\ Raise("IndexError")
                 /\ UNCHANGED <<file_path, stdout>>
            ELSE /\ file_path' = FilePathArg(argv)
                 /\ pc' = "open"
                 /\ UNCHANGED <<stdout, stderr, exit_code>>
    /\ UNCHANGED <<argv, fs, xl, i, sheet_name, df, io, opened, loaded,
                   edits, touched, run, prev>>

\* Line 12.
OpenWorkbook ==
    /\ pc = "open"
    /\ io' = Append(io, [op |-> "ExcelFile", path |-> file_path])
    /\ LET r == ExcelFile(fs[file_path]) IN
       IF r.ok
       THEN /\ xl' = [open |-> TRUE, sheet_names |-> r.sheet_names]
            /\ pc' = "list"
            /\ UNCHANGED <<stderr, exit_code>>
       ELSE /\ Raise("ExcelFile")
            /\ UNCHANGED xl
    /\ opened' = fs[file_path]
    /\ UNCHANGED <<argv, fs, file_path, i, sheet_name, df, stdout, loaded,
                   edits, touched, run, prev>>

\* Lines 13-15.
PrintSheetList ==
    /\ pc = "list"
    /\ stdout' = stdout \o SheetListLines(xl.sheet_names)
    /\ pc' = "loop"
    /\ UNCHANGED <<argv, fs, file_path, xl, i, sheet_name, df, stderr,
                   exit_code, io, opened, loaded, edits, touched, run, prev>>

\* Lines 18-19: the loop takes the next sheet name and prints its header.
PrintSheetHeader ==
    /\ pc = "loop"
    /\ i < Len(xl.sheet_names)
    /\ i' = i + 1
    /\ sheet_name' = xl.sheet_names[i + 1]
    /\ stdout' = Append(stdout, SheetHeaderLine(xl.sheet_names[i + 1]))
    /\ pc' = "read"
    /\ UNCHANGED <<argv, fs, file_path, xl, df, stderr, exit_code, io,
                   opened, loaded, edits, touched, run, prev>>

\* The sheet of that name in a file, as it is stored (for the history).
StoredCells(file, name) ==
    IF file.kind = "workbook" /\ \E k \in 1..Len(file.sheets) : file.sheets[k].name = name
    THEN file.sheets[CHOOSE k \in 1..Len(file.sheets) : file.sheets[k].name = name].cells
    ELSE <<>>

\* Mutant: a sheet that cannot be read is skipped and the loop goes on.
ReadSheetSkipOnError ==
    /\ pc = "read"
    /\ io' = Append(io, [op |-> "read_excel", path |-> file_path])
    /\ LET r == ReadExcel(fs[file_path], sheet_name) IN
       IF r.ok
       THEN /\ df' = r.df
            /\ loaded' = [name |-> sheet_name,
                          cells |-> StoredCells(fs[file_path], sheet_name),
                          df |-> r.df]
            /\ pc' = "render"
       ELSE /\ pc' = "loop"
            /\ UNCHANGED <<df, loaded>>
    /\ UNCHANGED <<argv, fs, file_path, xl, i, sheet_name, stdout, stderr,
                   exit_code, opened, edits, touched, run, prev>>

\* Line 20: the sheet is read from the path, not from the handle xl.
ReadSheet ==
    /\ pc = "read"
    /\ io' = Append(io, [op |-> "read_excel", path |-> file_path])
    /\ LET r == ReadExcel(fs[file_path], sheet_name) IN
       IF r.ok
       THEN /\ df' = r.df
            /\ loaded' = [name |-> sheet_name,
                          cells |-> StoredCells(fs[file_path], sheet_name),
                          df |-> r.df]
            /\ pc' = "render"
            /\ UNCHANGED <<stderr, exit_code>>
       ELSE /\ Raise("read_excel")
            /\ UNCHANGED <<df, loaded>>
    /\ UNCHANGED <<argv, fs, file_path, xl, i, sheet_name, stdout, opened,
                   edits, touched, run, prev>>

\* Mutant: the filled frame is saved back over the input file, as its only
\* sheet.
RenderSheetSavingBack ==
    /\ pc = "render"
    /\ df' = FillNa(df, "")
    /\ stdout' = stdout \o SheetBodyLines(ToString(FillNa(df, ""), FALSE))
    /\ fs' = [fs EXCEPT ![file_path] =
                 [kind |-> "workbook",
                  sheets |-> <<[name |-> SheetNamePool[1], columns |-> df.columns,
                               cells |-> FillNa(df, "").data, ok |-> TRUE]>>]]
    /\ pc' = "loop"
    /\ UNCHANGED <<argv, file_path, xl, i, sheet_name, stderr, exit_code,
                   io, opened, loaded, edits, touched, run, prev>>

\* Lines 22-24.
RenderSheet ==
    /\ pc = "render"
    /\ df' = FillNa(df, "")
    /\ stdout' = stdout \o SheetBodyLines(ToString(FillNa(df, ""), FALSE))
    /\ pc' = "loop"
    /\ UNCHANGED <<argv, fs, file_path, xl, i, sheet_name, stderr, exit_code,
                   io, opened, loaded, edits, touched, run, prev>>

\* The loop of line 18 is exhausted: the script ends, exit code 0.
Finish ==
    /\ pc = "loop"
    /\ i >= Len(xl.sheet_names)
    /\ exit_code' = 0
    /\ pc' = "exited"
    /\ UNCHANGED <<argv, fs, file_path, xl, i, sheet_name, df, stdout, stderr,
                   io, opened, loaded, edits, touched, run, prev>>

Step ==
    \/ CheckArgs
    \/ OpenWorkbook
    \/ PrintSheetList
    \/ PrintSheetHeader
    \/ ReadSheet
    \/ RenderSheet
    \/ Finish

\* ------------------------------------------------------- other processes

\* Changes count while an invocation runs or another one may follow.
Observed == pc # "exited" \/ run = 1

EnvWrite(p, file) ==
    /\ edits < MaxEdits
    /\ Observed
    /\ fs[p] # file
    /\ fs' = [fs EXCEPT ![p] = file]
    /\ edits' = edits + 1
    /\ touched' = touched \cup {p}
    /\ UNCHANGED <<argv, pc, file_path, xl, i, sheet_name, df, stdout, stderr,
                   exit_code, io, opened, loaded, run, prev>>

\* Another process deletes the file.
EnvRemove == \E p \in Paths : EnvWrite(p, Missing)

\* Another process overwrites the file with something that is no spreadsheet.
EnvGarble == \E p \in Paths : fs[p].kind # "missing" /\ EnvWrite(p, PlainText)

\* Another process saves the workbook with one cell changed.
EnvWriteCell ==
    \E p \in Paths :
        /\ fs[p].kind = "workbook"
        /\ \E k \in 1..Len(fs[p].sheets), rc \in EditCells, v \in EditValues :
              EnvWrite(p, [fs[p] EXCEPT !.sheets[k].cells[rc[1]][rc[2]] = v])

\* Another process saves the workbook without its first sheet.
EnvDropSheet ==
    \E p \in Paths :
        /\ fs[p].kind = "workbook"
        /\ Len(fs[p].sheets) > 1
        /\ EnvWrite(p, [fs[p] EXCEPT !.sheets = Tail(fs[p].sheets)])

Env == EnvRemove \/ EnvGarble \/ EnvWriteCell \/ EnvDropSheet

Next == Step \/ Env

Spec == Init /\ [][Next]_vars

\* The interpreter runs the script to its end: no statement waits.
FairSpec == Spec /\ WF_vars(Step)

\* The same command line is run a second time: a new process, the same
\* arguments, the file system as it is by then.
Rerun ==
    /\ pc = "exited"
    /\ run = 1
    /\ run' = 2
    /\ prev' = [stdout |-> stdout, stderr |-> stderr, exit_code |-> exit_code]
    /\ pc' = "start"
    /\ file_path' = ""
    /\ xl' = NoHandle
    /\ i' = 0
    /\ sheet_name' = ""
    /\ df' = NoFrame
    /\ stdout' = <<>>
    /\ stderr' = <<>>
    /\ exit_code' = NotExited
    /\ io' = <<>>
    /\ opened' = Missing
    /\ loaded' = NoLoad
    /\ UNCHANGED <<argv, fs, edits, touched>>

NextTwice == Step \/ Env \/ Rerun

TwoRunSpec == Init /\ [][NextTwice]_vars

\* ------------------------------------------------------------- properties

Exited == pc = "exited"

IsPrefix(s, t) == Len(s) <= Len(t) /\ \A k \in 1..Len(s) : s[k] = t[k]

IsSheetHeader(l) == l.kind = "sheet_header"
IsTable(l) == l.kind = "table"
IsReadExcel(e) == e.op = "read_excel"

\* The sheet names a workbook file declares, in its order.
DeclaredNames(file) == [k \in 1..Len(file.sheets) |-> file.sheets[k].name]

\* The names in the sheet headers printed, in the order printed.
HeaderNames ==
    LET hs == SelectSeq(stdout, IsSheetHeader) IN [k \in 1..Len(hs) |-> hs[k].name]

\* The names of the sheets whose table was printed, in the order printed: a
\* table belongs to the header on the line before it.
RenderedNames ==
    LET at == {k \in 2..Len(stdout) : IsTable(stdout[k]) /\ IsSheetHeader(stdout[k - 1])}
        pick[n \in Nat] ==
            IF n = 0 THEN <<>>
            ELSE LET k == CHOOSE k \in at : Cardinality({j \in at : j <= k}) = n
                 IN Append(pick[n - 1], stdout[k - 1].name)
    IN pick[Cardinality(at)]

TableCount == Len(SelectSeq(stdout, IsTable))

\* Every sheet the handle lists has had its table printed.
AllRendered == xl.open /\ RenderedNames = xl.sheet_names /\ TableCount = Len(xl.sheet_names)

\* C1: with no positional argument the whole standard output is the usage
\* line, the exit code is 1, and no file is ever opened or read: the script
\* goes from its start straight to its exit.
C1_UsageOnly ==
    Len(argv) = 1 =>
        /\ pc \in {"start", "exited"}
        /\ io = <<>>
        /\ ~xl.open
        /\ loaded = NoLoad
        /\ Exited => stdout = <<UsageLine>> /\ exit_code = 1 /\ stderr = <<>>
        /\ ~Exited => stdout = <<>>

C1_Witness == Len(argv) = 1 /\ Exited /\ run = 1

\* C2: on a run that completes, the sheet names listed, the names in the
\* sheet headers and the names of the sheets rendered are each the sequence
\* of sheet names the opened workbook declares.
C2_SheetOrder ==
    (Exited /\ exit_code = 0) =>
        /\ opened.kind = "workbook"
        /\ Len(stdout) >= 2
        /\ stdout[2].kind = "list"
        /\ stdout[2].names = DeclaredNames(opened)
        /\ HeaderNames = DeclaredNames(opened)
        /\ RenderedNames = DeclaredNames(opened)
        /\ TableCount = Len(DeclaredNames(opened))

C2_Witness ==
    /\ Exited
    /\ exit_code = 0
    /\ Len(DeclaredNames(opened)) = 2
    /\ DeclaredNames(opened)[1] = SheetNamePool[2]
    /\ HeaderNames = DeclaredNames(opened)

\* The line expected at position k of the output of a run with a path.
ExpectedKind(k) ==
    IF k = 1 THEN "list_header"
    ELSE IF k = 2 THEN "list"
    ELSE IF k = 3 THEN "blank"
    ELSE IF (k - 4) % 3 = 0 THEN "sheet_header"
    ELSE IF (k - 4) % 3 = 1 THEN "table"
    ELSE "blank"

ReadCount == Len(SelectSeq(io, IsReadExcel))

\* C3: the output of a run with a path is, at every moment, a prefix of: the
\* list label, the list, a blank line, then per sheet in order its header, its
\* table and a blank line.  The three list lines are out before any sheet is
\* read; a sheet is read only after its own header and after the blank line
\* that ends the sheet before it; a table printed is that of the sheet named
\* in the header just before it.
C3_OutputOrder ==
    Len(argv) >= 2 =>
        /\ \A k \in 1..Len(stdout) : stdout[k].kind = ExpectedKind(k)
        /\ \A k \in 1..Len(stdout) :
              IsSheetHeader(stdout[k]) =>
                 /\ ((k - 4) \div 3) + 1 <= Len(xl.sheet_names)
                 /\ stdout[k].name = xl.sheet_names[((k - 4) \div 3) + 1]
        /\ Len(stdout) >= 2 => stdout[2].names = xl.sheet_names
        /\ ReadCount >= 1 => Len(stdout) >= 3 * ReadCount + 1
        /\ pc = "render" => Len(stdout) = 3 * ReadCount + 1
        /\ (pc = "loop" /\ i >= 1) =>
              /\ Len(stdout) = 3 * i + 3
              /\ stdout[Len(stdout) - 2].name = loaded.name
              /\ stdout[Len(stdout) - 1].rows = FillNa(loaded.df, "").data

C3_Witness ==
    /\ Len(argv) >= 2
    /\ Exited
    /\ exit_code = 0
    /\ Len(stdout) = 9

\* A sheet has just been rendered: its table and the blank line are the last
\* two lines printed.
JustRendered == pc = "loop" /\ i >= 1

\* The rows of the table printed last.
ShownRows == stdout[Len(stdout) - 1].rows
ShownHeader == stdout[Len(stdout) - 1].header

SameShape(a, b) ==
    Len(a) = Len(b) /\ \A r \in 1..Len(a) : Len(a[r]) = Len(b[r])

OpenFailed == Len(io) >= 1 /\ opened.kind # "workbook"

\* C5: when the file at the path is missing or is no spreadsheet, the failed
\* open ends the run: non-zero exit code, the exception uncaught, the file
\* accessed once and never again, and nothing printed, neither the list label
\* nor a sheet header.
C5_OpenFailureFatal ==
    OpenFailed =>
        /\ Exited
        /\ exit_code # 0
        /\ stderr # <<>>
        /\ io = <<[op |-> "ExcelFile", path |-> file_path]>>
        /\ stdout = <<>>
        /\ ~xl.open

C5_Witness == OpenFailed /\ Exited /\ opened.kind = "text"

\* The usage exit was taken.
UsageExit == Exited /\ \E k \in 1..Len(stdout) : stdout[k].kind = "usage"

\* C6: once the arguments are checked, the usage exit has been taken exactly
\* when there is no positional argument; otherwise the path is the first
\* positional argument, whatever follows it, and it is the path every file
\* access of the run uses.
C6_FirstArgumentIsPath ==
    pc # "start" =>
        /\ UsageExit <=> Len(argv) = 1
        /\ Len(argv) >= 2 =>
              /\ file_path = argv[2]
              /\ \A k \in 1..Len(stdout) : stdout[k].kind # "usage"
              /\ \A k \in 1..Len(io) : io[k].path = argv[2]

C6_Witness ==
    /\ Len(argv) = 3
    /\ argv[2] # argv[3]
    /\ Exited
    /\ exit_code = 0
    /\ file_path = argv[2]

\* C7: the run ends; when it has ended, the exit code is 0 exactly when every
\* sheet of the opened workbook has been rendered; and exit code 0 is never
\* that of a run whose usage check or open failed or that left a sheet out.
C7_TerminatesZeroIffAllRendered ==
    /\ <>Exited
    /\ [](Exited => (exit_code = 0 <=> AllRendered))
    /\ [](exit_code = 0 =>
            /\ Exited
            /\ ~UsageExit
            /\ opened.kind = "workbook"
            /\ RenderedNames = DeclaredNames(opened))

C7_Witness == Exited /\ exit_code = 0 /\ TableCount = 2

\* The file the command line names has not been changed by another process
\* since the first invocation started.
FileUnmodified == Len(argv) >= 2 => argv[2] \notin touched

\* C8: a second invocation with the same arguments on the unmodified file
\* prints the same standard output and ends with the same exit code as the
\* first.
C8_Deterministic ==
    (run = 2 /\ Exited /\ FileUnmodified) =>
        /\ stdout = prev.stdout
        /\ exit_code = prev.exit_code

C8_Witness ==
    /\ run = 2
    /\ Exited
    /\ FileUnmodified
    /\ exit_code = 0
    /\ TableCount = 2
    /\ touched # {}

\* pd.read_excel has raised for the sheet the loop is at: every iteration so
\* far has called it, and the last call returned nothing.
ReadFailed == i >= 1 /\ ReadCount = i /\ loaded.name # sheet_name

\* The length of the output of a run that got through the first n sheets: the
\* list lines, then header, table and blank line for each.
SheetsOutput(n) == Len(SheetListLines(<<>>)) + n * (1 + Len(SheetBodyLines(NoTable)))

\* C9: when reading sheet k fails the run ends there with a non-zero exit
\* code; the header of sheet k is the last line printed, its table is not
\* printed; what was printed for the sheets before k is still there; no
\* header or table of a later sheet is printed, then or afterwards.
C9_NoSheetIsolation ==
    /\ [](ReadFailed =>
            /\ Exited
            /\ exit_code # 0
            /\ stderr # <<>>
            /\ Len(stdout) = SheetsOutput(i - 1) + 1
            /\ IsSheetHeader(stdout[Len(stdout)])
            /\ stdout[Len(stdout)].name = xl.sheet_names[i]
            /\ HeaderNames = SubSeq(xl.sheet_names, 1, i)
            /\ RenderedNames = SubSeq(xl.sheet_names, 1, i - 1)
            /\ TableCount = i - 1)
    /\ [][IsPrefix(stdout, stdout')]_vars
    /\ [][Exited => stdout' = stdout]_vars

C9_Witness ==
    /\ ReadFailed
    /\ Exited
    /\ i = 2
    /\ TableCount = 1
    /\ edits = 0

\* C10 as stated: the workbook is fixed once opened.  The cells every sheet is
\* rendered from are those of the workbook pd.ExcelFile opened, and whether
\* the run succeeds is decided by that workbook alone.
C10_ImmutableOnceOpened ==
    xl.open =>
        /\ loaded # NoLoad => loaded.cells = StoredCells(opened, loaded.name)
        /\ Exited =>
              (exit_code = 0 <=> \A k \in 1..Len(opened.sheets) : opened.sheets[k].ok)

====
